---- MODULE Spec2Model ----
\* A model of gaudi/genes/torsion.py: the Torsion gene, its shared cache of
\* chimera.BondRot handles (Torsion.BONDS_ROTS), bond discovery
\* (rotatable_bonds), express/unexpress and the genetic operators mate/mutate.
\*
\* chimera (the rotation engine) and deap.tools (the bounded operators) are
\* external libraries: the model keeps of them what torsion.py relies on, a
\* BondRot with a recorded angle that adjustAngle(delta, anchor) moves by
\* delta, a creation call that succeeds or raises, and operators that leave
\* the lists' lengths alone and clamp what they change into [low, up].
EXTENDS Integers, Sequences, FiniteSets, TLC

\* ------------------------------------------------------------------ bounds

\* The longest allele (max_bonds) a gene is configured with.
MaxBonds == 2

\* The count of chimera.BondRot(b) calls per bond saturates here.
MaxCalls == 2

\* ---------------------------------------------------------------- molecules

\* A molecule is its atoms, its bonds (pairs of atom indices) and what the
\* rotation engine and the interpreter add to it: cycle, the bonds the engine
\* finds on a ring; foreign, the bonds whose BondRot another owner may hold;
\* fragile, the bonds on which the engine may fail for a reason of its own;
\* enums, the orders in which the interpreter may iterate the set of bonds;
\* donor, the compound's donor atom (0 when it has none).

\* An atom as torsion.py reads it: name, idatmType, element.isMetal and
\* serialNumber; numBonds is derived from the molecule's bonds.
Atom(serial, name, type, metal) ==
    [serialNumber |-> serial, name |-> name, idatmType |-> type, isMetal |-> metal]

\* Molecule 1: a planar C2-N2 bond and a C2-C3 bond that share atom 1 (so they
\* tie on the sort key), and two bonds to terminal hydrogens.
\*        4(H) - 2(N2) - 1(C2) - 3(C3) - 5(H)
Mol1 ==
    [atoms |-> <<Atom(1, "C1", "C2", FALSE), Atom(2, "N1", "N2", FALSE),
                 Atom(3, "C2", "C3", FALSE), Atom(4, "H1", "H", FALSE),
                 Atom(5, "H2", "H", FALSE)>>,
     bonds |-> {{1, 2}, {1, 3}, {2, 4}, {3, 5}},
     cycle |-> {},
     foreign |-> {},
     fragile |-> {},
     enums |-> {<<{1, 2}, {1, 3}, {2, 4}, {3, 5}>>, <<{3, 5}, {2, 4}, {1, 3}, {1, 2}>>},
     donor |-> 3]

\* Molecule 2: a dummy atom bonded to a terminal hydrogen and to a C3 (a bond
\* another owner may hold), an O3-S3 bond with no accepted type, and a
\* terminal dummy.
\*        2(H) - 1(DUM) - 3(C3) - 4(O3) - 5(S3) - 6(DUM)
Mol2 ==
    [atoms |-> <<Atom(1, "DUM", "Du", FALSE), Atom(2, "H1", "H", FALSE),
                 Atom(3, "C1", "C3", FALSE), Atom(4, "O1", "O3", FALSE),
                 Atom(5, "S1", "S3", FALSE), Atom(6, "DUM", "Du", FALSE)>>,
     bonds |-> {{1, 2}, {1, 3}, {3, 4}, {4, 5}, {5, 6}},
     cycle |-> {},
     foreign |-> {{1, 3}},
     fragile |-> {},
     enums |-> {<<{1, 2}, {1, 3}, {3, 4}, {4, 5}, {5, 6}>>},
     donor |-> 3]

\* Molecule 3: a three-membered ring (1, 2, 3) whose bonds the engine rejects
\* as cyclic, a C3-C3 tail with a bond on which the engine may fail, and a
\* zinc bonded to atom 5 and to a second metal.
\*        ring(1,2,3) - 4(C3) - 5(N3) - 6(Zn) - 7(Fe)
Mol3 ==
    [atoms |-> <<Atom(1, "C1", "C3", FALSE), Atom(2, "C2", "C3", FALSE),
                 Atom(3, "C3", "C3", FALSE), Atom(4, "C4", "C3", FALSE),
                 Atom(5, "N1", "N3", FALSE), Atom(6, "ZN", "Zn", TRUE),
                 Atom(7, "FE", "Fe", TRUE)>>,
     bonds |-> {{1, 2}, {2, 3}, {1, 3}, {3, 4}, {4, 5}, {5, 6}, {6, 7}},
     cycle |-> {{1, 2}, {2, 3}, {1, 3}},
     foreign |-> {},
     fragile |-> {{4, 5}},
     enums |-> {<<{1, 2}, {2, 3}, {1, 3}, {3, 4}, {4, 5}, {5, 6}, {6, 7}>>},
     donor |-> 4]

\* Molecule 4: a chain whose compound has no donor atom.
\*        1(C3) - 2(C3) - 3(C3) - 4(C3)
Mol4 ==
    [atoms |-> <<Atom(1, "C1", "C3", FALSE), Atom(2, "C2", "C3", FALSE),
                 Atom(3, "C3", "C3", FALSE), Atom(4, "C4", "C3", FALSE)>>,
     bonds |-> {{1, 2}, {2, 3}, {3, 4}},
     cycle |-> {},
     foreign |-> {},
     fragile |-> {},
     enums |-> {<<{1, 2}, {2, 3}, {3, 4}>>},
     donor |-> 0]

\* Molecule 5: a chain with a single rotatable bond, fewer than the alleles
\* of a gene with max_bonds = 2.
\*        1(C3) - 2(C3) - 3(N3) - 4(H)
Mol5 ==
    [atoms |-> <<Atom(1, "C1", "C3", FALSE), Atom(2, "C2", "C3", FALSE),
                 Atom(3, "N1", "N3", FALSE), Atom(4, "H1", "H", FALSE)>>,
     bonds |-> {{1, 2}, {2, 3}, {3, 4}},
     cycle |-> {},
     foreign |-> {},
     fragile |-> {},
     enums |-> {<<{3, 4}, {2, 3}, {1, 2}>>},
     donor |-> 2]

Molecules == <<Mol1, Mol2, Mol3, Mol4, Mol5>>

\* The Torsion genes: the same gene of two individuals, both targeting the one
\* loaded molecule, so both read and write the class-level BONDS_ROTS.
Genes == {"A", "B"}

\* The angles, in degrees, the random source of random_angle is taken to draw.
AngleSamples == {10, 180}

\* Allele values of the genes that are expressed: one that is no multiple of
\* 180 and one that is.
ExpressSamples == {170, 180}

\* Configured flexibilities; 400 is stored as 360.
Flexibilities == {20, 400}

NoRot == 0
NoBond == {}
NoAtom == 0
NoAnchor == <<>>
NoSearch == 0

\* What stands for an exception where an atom is expected.
Raises == -1

\* The keys of self.parent._molecules; the target molecule is "Ligand".
MoleculeNames == {"Ligand"}

\* rotatable_atom_types=('C3', 'N3', 'C2', 'N2', 'P'), the default of __init__
DefaultAtomTypes == {"C3", "N3", "C2", "N2", "P"}

\* The rotatable_atom_types a gene is configured with.
AtomTypeSets == {DefaultAtomTypes, {"C3"}}

\* The anchor a gene is configured with: none, an atom of the target by its
\* serial number, a serial number no atom has, a molecule that is not loaded.
AnchorSpecs == {NoAnchor, <<"Ligand", 4>>, <<"Ligand", 9>>, <<"Ghost", 1>>}

\* The anchor of the sibling Search gene: no such gene, a serial number of
\* the target, a serial number no atom has.
SearchAnchors == {NoSearch, 2, 9}

VARIABLES
    mol,          \* index of the molecule self.parent.genes[self.target] holds
    enum,         \* iteration order of the unordered bond set in this process
    flexibility,  \* gene -> self.flexibility, doubled bounds of the allele
    max_bonds,    \* gene -> self.max_bonds
    allele,       \* gene -> self.allele, a sequence of angles
    BONDS_ROTS,   \* bond -> index into rots of the cached handle, or NoRot
    rots,         \* the BondRot objects created so far: [bond, angle]
    extUsed,      \* bonds whose BondRot another owner holds in the engine
    calls,        \* bond -> how often chimera.BondRot(bond) was invoked
    last,         \* the last operation: what it was, by whom, what it yielded
    phase,        \* gene -> Unexpressed / Expressed, and what it rotated
    pc,           \* the evaluation loop: whose cycle is open, and where it is
    indpb,        \* gene -> self.indpb, in percent
    _anchor,      \* gene -> self._anchor: <<molecule name, serial>> or NoAnchor
    search,       \* gene -> anchor of the Search gene with the gene's target
                  \*         among self.parent.genes, NoSearch when there is none
    rotatable_atom_types  \* gene -> self.rotatable_atom_types

vars == <<mol, enum, flexibility, max_bonds, allele, BONDS_ROTS, rots, extUsed,
          calls, last, phase, pc, indpb, _anchor, search, rotatable_atom_types>>

\* What no method of Torsion writes after construction.
config == <<mol, enum, flexibility, max_bonds, indpb, _anchor, search,
            rotatable_atom_types>>

\* -------------------------------------------------------- bonds of a molecule

Molecule == Molecules[mol]

\* a.numBonds
NumBonds(a) == Cardinality({b \in Molecule.bonds : a \in b})

\* key=lambda b: min(y.serialNumber for y in b.atoms)
SortKey(b) ==
    LET serials == {Molecule.atoms[a].serialNumber : a \in b}
    IN  CHOOSE x \in serials : \A y \in serials : x <= y

\* One step of sorted(): x goes behind every element whose key is not larger
\* (the sort is stable).
RECURSIVE InsertSorted(_, _)
InsertSorted(s, x) ==
    IF s = <<>> THEN <<x>>
    ELSE IF SortKey(Head(s)) <= SortKey(x)
         THEN <<Head(s)>> \o InsertSorted(Tail(s), x)
         ELSE <<x>> \o s

RECURSIVE Sorted(_)
Sorted(s) ==
    IF s = <<>> THEN <<>>
    ELSE InsertSorted(Sorted(SubSeq(s, 1, Len(s) - 1)), s[Len(s)])

\* set(b for a in atoms for b in a.bonds if not a.element.isMetal): the bonds
\* reached from some non-metal atom, in the set's iteration order.
TouchesNonMetal(b) == \E a \in b : ~Molecule.atoms[a].isMetal

CollectedBonds == SelectSeq(enum, TouchesNonMetal)

\* bonds = sorted(bonds, key=...)
SortedBonds == Sorted(CollectedBonds)

\* self.nonrotatable = ()
nonrotatable == {}

RotatableTypes == {"C3", "N3", "C2", "N2", "P"}

\* conditions without the loop that turns terminal atoms down.
ConditionsKeepTerminal(b) ==
    IF \E a \in b : Molecule.atoms[a].name = "DUM" THEN TRUE
    ELSE \E a \in b : a \notin nonrotatable
                      /\ Molecule.atoms[a].idatmType \in RotatableTypes

\* conditions(*b.atoms)
Conditions(b) ==
    IF \E a \in b : Molecule.atoms[a].name = "DUM" THEN TRUE
    ELSE IF \E a \in b : NumBonds(a) <= 1 THEN FALSE
    ELSE \E a \in b : a \notin nonrotatable
                      /\ Molecule.atoms[a].idatmType \in RotatableTypes

\* chimera.BondRot(b): what the engine answers. fail is the bond (if any) on
\* which the engine fails for a reason of its own during this call.
BondRot(b, live, fail) ==
    IF b = fail THEN "error"
    ELSE IF b \in Molecule.cycle THEN "cycle"
    ELSE IF b \in live THEN "already used"
    ELSE "ok"

\* Live with the BondRots of other owners forgotten.
LiveWithoutOwners(rs, ext) == {rs[i].bond : i \in DOMAIN rs}

\* The bonds that hold a BondRot inside the engine.
Live(rs, ext) == ext \cup {rs[i].bond : i \in DOMAIN rs}

Bump(n) == IF n < MaxCalls THEN n + 1 ELSE n

\* ------------------------------------------------------------------ anchor

AtomsWithSerial(n) ==
    {a \in DOMAIN Molecule.atoms : Molecule.atoms[a].serialNumber = n}

First(S) == CHOOSE a \in S : \A c \in S : a <= c

\* self.parent.genes[self.target].compound.donor
Donor == IF Molecule.donor = NoAtom THEN Raises ELSE Molecule.donor

\* if self._anchor is not None: the atom, NoAtom to go on to the Search gene,
\* Raises for the KeyError of self.parent._molecules[mol].
ExplicitAnchor(g) ==
    IF _anchor[g] = NoAnchor THEN NoAtom
    ELSE IF _anchor[g][1] \notin MoleculeNames THEN Raises
    ELSE IF AtomsWithSerial(_anchor[g][2]) = {} THEN NoAtom
    ELSE First(AtomsWithSerial(_anchor[g][2]))

\* The Search gene's anchor, resolved by serial number, else the donor.
SearchAnchor(g) ==
    IF search[g] = NoSearch THEN Donor
    ELSE IF AtomsWithSerial(search[g]) = {} THEN Donor
    ELSE First(AtomsWithSerial(search[g]))

\* Torsion.anchor
Anchor(g) == IF ExplicitAnchor(g) = NoAtom THEN SearchAnchor(g) ELSE ExplicitAnchor(g)

Neighbours(S) ==
    {a \in DOMAIN Molecule.atoms : \E c \in S : c # a /\ {a, c} \in Molecule.bonds}

\* The number of bonds between the atoms of `front` and atom `to`.
RECURSIVE Hops(_, _, _)
Hops(front, seen, to) ==
    IF to \in front THEN 0
    ELSE IF Neighbours(front) \subseteq seen THEN Cardinality(DOMAIN Molecule.atoms)
    ELSE 1 + Hops(Neighbours(front) \ seen, seen \cup Neighbours(front), to)

\* box.find_nearest(anchor, b.atoms)
FindNearest(anchor, b) ==
    First({a \in b : \A c \in b : Hops({anchor}, {anchor}, a) <= Hops({anchor}, {anchor}, c)})

\* ------------------------------------------------------------- the generator

\* Lookup with the cache never hit.
LookupAlwaysMisses(cache, b) == NoRot

\* try: br = self.BONDS_ROTS[b]   (NoRot stands for the KeyError)
Lookup(cache, b) == cache[b]

\* A BondRot as chimera hands it out, and the rotanchor the code stores on it.
NewRot(b, a) == [bond |-> b, angle |-> 0, rotanchor |-> a]

\* Visit with the store into BONDS_ROTS left out.
VisitWithoutStore(g, b, st, fail, leak) ==
    IF Lookup(st.cache, b) # NoRot
    THEN [st EXCEPT !.yielded = Append(@, Lookup(st.cache, b))]
    ELSE IF ~Conditions(b) THEN st
    ELSE LET answer == BondRot(b, Live(st.rots, extUsed), fail)
             called == [st EXCEPT !.calls[b] = Bump(@)]
             br     == Len(st.rots) + 1
         IN  CASE answer = "cycle" -> called
               [] answer = "already used" -> called
               [] answer = "error" -> [called EXCEPT !.raised = TRUE]
               [] Anchor(g) = Raises ->
                    [called EXCEPT !.rots = IF leak THEN Append(@, NewRot(b, NoAtom))
                                            ELSE @,
                                   !.raised = TRUE]
               [] OTHER ->
                    [called EXCEPT !.rots = Append(@, NewRot(b, FindNearest(Anchor(g), b))),
                                   !.yielded = Append(@, br)]

\* Visit resolving the anchor on a cache hit too, and storing the nearest atom
\* on the cached handle again.
VisitReanchors(g, b, st, fail, leak) ==
    IF Lookup(st.cache, b) # NoRot
    THEN IF Anchor(g) = Raises THEN [st EXCEPT !.raised = TRUE]
         ELSE [st EXCEPT !.rots[Lookup(st.cache, b)].rotanchor = FindNearest(Anchor(g), b),
                         !.yielded = Append(@, Lookup(st.cache, b))]
    ELSE IF ~Conditions(b) THEN st
    ELSE LET answer == BondRot(b, Live(st.rots, extUsed), fail)
             called == [st EXCEPT !.calls[b] = Bump(@)]
             br     == Len(st.rots) + 1
         IN  CASE answer = "cycle" -> called
               [] answer = "already used" -> called
               [] answer = "error" -> [called EXCEPT !.raised = TRUE]
               [] Anchor(g) = Raises ->
                    [called EXCEPT !.rots = IF leak THEN Append(@, NewRot(b, NoAtom))
                                            ELSE @,
                                   !.raised = TRUE]
               [] OTHER ->
                    [called EXCEPT !.rots = Append(@, NewRot(b, FindNearest(Anchor(g), b))),
                                   !.cache[b] = br,
                                   !.yielded = Append(@, br)]

\* The generator's body for one bond b, run for gene g on the generator's
\* state st: [cache, rots, calls, yielded, raised]. yielded collects the
\* handles handed to the consumer so far. When self.anchor raises, the BondRot
\* just created is in no cache; leak tells whether the engine keeps it.
Visit(g, b, st, fail, leak) ==
    IF Lookup(st.cache, b) # NoRot
    THEN [st EXCEPT !.yielded = Append(@, Lookup(st.cache, b))]
    ELSE IF ~Conditions(b) THEN st
    ELSE LET answer == BondRot(b, Live(st.rots, extUsed), fail)
             called == [st EXCEPT !.calls[b] = Bump(@)]
             br     == Len(st.rots) + 1
         IN  CASE answer = "cycle" -> called
               [] answer = "already used" -> called
               [] answer = "error" -> [called EXCEPT !.raised = TRUE]
               [] Anchor(g) = Raises ->
                    [called EXCEPT !.rots = IF leak THEN Append(@, NewRot(b, NoAtom))
                                            ELSE @,
                                   !.raised = TRUE]
               [] OTHER ->
                    [called EXCEPT !.rots = Append(@, NewRot(b, FindNearest(Anchor(g), b))),
                                   !.cache[b] = br,
                                   !.yielded = Append(@, br)]

\* Generate running to the end of the bonds, however few handles the consumer
\* asks for.
RECURSIVE GenerateAll(_, _, _, _, _, _)
GenerateAll(g, bs, want, st, fail, leak) ==
    IF bs = <<>> \/ st.raised THEN st
    ELSE GenerateAll(g, Tail(bs), want, Visit(g, Head(bs), st, fail, leak), fail, leak)

\* Generate going on to the next bond after the engine has failed on one.
RECURSIVE GenerateThroughErrors(_, _, _, _, _, _)
GenerateThroughErrors(g, bs, want, st, fail, leak) ==
    IF bs = <<>> \/ Len(st.yielded) >= want THEN st
    ELSE GenerateThroughErrors(g, Tail(bs), want,
                               Visit(g, Head(bs), st, fail, leak), fail, leak)

\* The generator driven by a consumer that asks for at most `want` handles:
\* it stops when it has yielded that many, when it raises, or at the end of
\* the sorted bonds.
RECURSIVE Generate(_, _, _, _, _, _)
Generate(g, bs, want, st, fail, leak) ==
    IF bs = <<>> \/ st.raised \/ Len(st.yielded) >= want THEN st
    ELSE Generate(g, Tail(bs), want, Visit(g, Head(bs), st, fail, leak), fail, leak)

\* for br in self.rotatable_bonds of gene g, taking at most `want` handles.
rotatable_bonds(g, want, fail, leak) ==
    Generate(g, SortedBonds, want,
             [cache |-> BONDS_ROTS, rots |-> rots, calls |-> calls,
              yielded |-> <<>>, raised |-> FALSE],
             fail, leak)

\* ------------------------------------------------------ express / unexpress

\* all(a.idatmType in ('C2', 'N2') for a in br.bond.atoms)
Planar(b) == \A a \in b : Molecule.atoms[a].idatmType \in {"C2", "N2"}

\* alpha = 0 if alpha < 180 else 180
SnapPlanar(alpha) == IF alpha < 180 THEN 0 ELSE 180

\* ExpressTarget without the planarity snap.
ExpressTargetRaw(alpha, b) == alpha

\* The angle express aims at for allele value alpha on bond b.
ExpressTarget(alpha, b) == IF Planar(b) THEN SnapPlanar(alpha) ELSE alpha

\* ExpressDelta turning by the allele itself, whatever the bond's angle is.
ExpressDeltaRelative(alpha, angle) == alpha

\* The first argument of br.adjustAngle in express: alpha - br.angle
ExpressDelta(alpha, angle) == alpha - angle

\* UnexpressDelta with the sign lost.
UnexpressDeltaSameSign(angle) == angle

\* The first argument of br.adjustAngle in unexpress: -br.angle
UnexpressDelta(angle) == 0 - angle

\* br.adjustAngle(delta, br.rotanchor): the engine turns the bond by delta and
\* its recorded angle moves by as much.
AdjustAngle(br, delta) == [br EXCEPT !.angle = @ + delta]

\* ExpressLoop reading the first allele for every bond.
RECURSIVE ExpressLoopFirstAllele(_, _, _, _)
ExpressLoopFirstAllele(rs, alleles, handles, k) ==
    IF k > Len(handles) \/ k > Len(alleles) THEN rs
    ELSE LET br    == rs[handles[k]]
             alpha == ExpressTarget(alleles[1], br.bond)
         IN  ExpressLoopFirstAllele(
                 [rs EXCEPT ![handles[k]] =
                      AdjustAngle(br, ExpressDelta(alpha, br.angle))],
                 alleles, handles, k + 1)

\* The loop body of express for the k-th pair of izip(self.allele, handles).
RECURSIVE ExpressLoop(_, _, _, _)
ExpressLoop(rs, alleles, handles, k) ==
    IF k > Len(handles) \/ k > Len(alleles) THEN rs
    ELSE LET br    == rs[handles[k]]
             alpha == ExpressTarget(alleles[k], br.bond)
         IN  ExpressLoop([rs EXCEPT ![handles[k]] =
                              AdjustAngle(br, ExpressDelta(alpha, br.angle))],
                         alleles, handles, k + 1)

\* The loop body of unexpress for the k-th handle.
RECURSIVE UnexpressLoop(_, _, _)
UnexpressLoop(rs, handles, k) ==
    IF k > Len(handles) THEN rs
    ELSE LET br == rs[handles[k]]
         IN  UnexpressLoop([rs EXCEPT ![handles[k]] =
                                AdjustAngle(br, UnexpressDelta(br.angle))],
                           handles, k + 1)

Angles(rs, handles) == [k \in DOMAIN handles |-> rs[handles[k]].angle]

\* What an express or unexpress of another gene does to the genes that are
\* Expressed: their bonds have been turned under them.
Disturb(ph, g) ==
    [h \in Genes |->
        IF h # g /\ ph[h].state = "Expressed"
        THEN [ph[h] EXCEPT !.disturbed = TRUE] ELSE ph[h]]

\* The bond on which the engine fails for a reason of its own during one
\* pass; NoBond when it does not.
Failures == {NoBond} \cup Molecule.fragile

\* Whether the engine keeps a BondRot the code created and lost to an
\* exception of self.anchor: either, where self.anchor raises.
Leaks(g) == IF Anchor(g) = Raises THEN BOOLEAN ELSE {FALSE}

\* A consumer that takes every handle the generator has.
Unbounded == Cardinality(Molecule.bonds) + 1

\* Torsion.express of gene g.
Express(g) ==
    \E fail \in Failures, leak \in Leaks(g) :
        LET st == rotatable_bonds(g, Len(allele[g]), fail, leak)
        IN  /\ fail # NoBond => st.raised
            /\ BONDS_ROTS' = st.cache
            /\ calls' = st.calls
            /\ rots' = ExpressLoop(st.rots, allele[g], st.yielded, 1)
            /\ last' = [op |-> "express", gene |-> g, yielded |-> st.yielded,
                        before |-> Angles(st.rots, st.yielded),
                        raised |-> st.raised, follows |-> FALSE]
            /\ phase' = [Disturb(phase, g) EXCEPT ![g] =
                            [state |-> "Expressed", slots |-> st.yielded,
                             disturbed |-> FALSE]]
            /\ UNCHANGED <<config, allele, extUsed>>

\* Torsion.unexpress of gene g.
Unexpress(g) ==
    \E fail \in Failures, leak \in Leaks(g) :
        LET st == rotatable_bonds(g, Unbounded, fail, leak)
        IN  /\ fail # NoBond => st.raised
            /\ BONDS_ROTS' = st.cache
            /\ calls' = st.calls
            /\ rots' = UnexpressLoop(st.rots, st.yielded, 1)
            /\ last' = [op |-> "unexpress", gene |-> g, yielded |-> st.yielded,
                        before |-> Angles(st.rots, st.yielded),
                        raised |-> st.raised,
                        follows |-> /\ last.op = "express"
                                    /\ last.gene = g
                                    /\ ~last.raised]
            /\ phase' = [Disturb(phase, g) EXCEPT ![g] =
                            [state |-> "Unexpressed", slots |-> <<>>,
                             disturbed |-> FALSE]]
            /\ UNCHANGED <<config, allele, extUsed>>

\* The other owner of a BondRot destroys it: the engine will accept the bond.
ExternalRelease(b) ==
    /\ b \in extUsed
    /\ extUsed' = extUsed \ {b}
    /\ UNCHANGED <<config, allele, BONDS_ROTS, rots, calls, last, phase>>

\* ------------------------------------------------------------ mate / mutate

\* What the operators of deap.tools compute before they clamp: any angle, in
\* or out of the bounds.
RawSamples == {-180, 180}

\* Clamp that lets every value through.
ClampNothing(c, f) == c

\* min(max(c, xl), xu) with xl = -0.5 * f and xu = 0.5 * f
Clamp(c, f) ==
    IF 2 * c < 0 - f THEN 0 - (f \div 2)
    ELSE IF 2 * c > f THEN f \div 2
    ELSE c

\* One position of cxSimulatedBinaryBounded: left alone (the coin, or equal
\* parents), or replaced by two children clamped into the bounds.
CxPosition(x1, x2, f) ==
    {<<x1, x2>>} \cup
    (IF x1 # x2
     THEN {<<Clamp(c1, f), Clamp(c2, f)>> : c1 \in RawSamples, c2 \in RawSamples}
     ELSE {})

\* cxSimulatedBinaryBounded returning both lists cut to the shorter length.
cxSimulatedBinaryCut(ind1, ind2, f) ==
    LET size  == IF Len(ind1) < Len(ind2) THEN Len(ind1) ELSE Len(ind2)
    IN  {<<SubSeq(ind1, 1, size), SubSeq(ind2, 1, size)>>}

\* cxSimulatedBinaryBounded(ind1, ind2, eta, low, up): the pairs of lists it
\* may return. It works on the first min(len(ind1), len(ind2)) positions, in
\* place, and returns both lists.
cxSimulatedBinaryBounded(ind1, ind2, f) ==
    LET size  == IF Len(ind1) < Len(ind2) THEN Len(ind1) ELSE Len(ind2)
        picks == {p \in [1..size -> RawSamples \X RawSamples \cup
                                    {<<ind1[i], ind2[i]>> : i \in 1..size}] :
                     \A i \in 1..size : p[i] \in CxPosition(ind1[i], ind2[i], f)}
    IN  {<<[i \in DOMAIN ind1 |-> IF i <= size THEN p[i][1] ELSE ind1[i]],
           [i \in DOMAIN ind2 |-> IF i <= size THEN p[i][2] ELSE ind2[i]]>> :
          p \in picks}

\* random.random() <= indpb, for indpb in percent: never at 0, always at 100.
Mutates(p) == IF p <= 0 THEN {FALSE} ELSE IF p >= 100 THEN {TRUE} ELSE BOOLEAN

\* mutPolynomialBounded(individual, eta, low, up, indpb): the lists it may
\* return. Each position is, with probability indpb, moved and clamped.
mutPolynomialBounded(individual, p, f) ==
    {m \in [DOMAIN individual -> {Clamp(c, f) : c \in RawSamples} \cup
                                 {individual[i] : i \in DOMAIN individual}] :
        \A i \in DOMAIN individual :
            \/ FALSE \in Mutates(p) /\ m[i] = individual[i]
            \/ TRUE \in Mutates(p) /\ m[i] \in {Clamp(c, f) : c \in RawSamples}}

Idle(op, g, before) ==
    [op |-> op, gene |-> g, yielded |-> <<>>, before |-> before,
     raised |-> FALSE, follows |-> FALSE]

\* Torsion.mate: self = g, mate = h. Both bounds come from self.flexibility.
Mate(g, h) ==
    /\ g # h
    /\ \E out \in cxSimulatedBinaryBounded(allele[g], allele[h], flexibility[g]) :
          allele' = [allele EXCEPT ![g] = out[1], ![h] = out[2]]
    /\ last' = Idle("mate", g, <<>>)
    /\ UNCHANGED <<config, BONDS_ROTS, rots, extUsed, calls, phase>>

\* The probabilities a caller passes to mutate, in percent.
Probabilities == {0, 100}

\* Torsion.mutate(indpb): the argument is not read, self.indpb is.
Mutate(g, arg) ==
    /\ \E out \in mutPolynomialBounded(allele[g], indpb[g], flexibility[g]) :
          allele' = [allele EXCEPT ![g] = out]
    /\ last' = Idle("mutate", g, <<>>)
    /\ UNCHANGED <<config, BONDS_ROTS, rots, extUsed, calls, phase>>

\* ------------------------------------------------------------ construction

\* self.flexibility = 360.0 if flexibility > 360 else flexibility
StoredFlexibility(f) == IF f > 360 THEN 360 ELSE f

\* The values random.uniform(-0.5 * f, 0.5 * f) is drawn from.
\* (2 * v against f: the model keeps whole degrees.)
InBounds(v, f) == -f <= 2 * v /\ 2 * v <= f

\* self.random_angle()
random_angle(f) == {v \in AngleSamples : InBounds(v, f)}

\* [self.random_angle() for i in xrange(self.max_bonds)]
InitialAlleles(f, n) == [1..n -> random_angle(f)]

InitGenes ==
    /\ flexibility \in [Genes -> {StoredFlexibility(f) : f \in Flexibilities}]
    /\ max_bonds \in [Genes -> 0..MaxBonds]
    /\ allele \in [Genes -> UNION {InitialAlleles(StoredFlexibility(f), n) :
                                      f \in Flexibilities, n \in 0..MaxBonds}]
    /\ \A g \in Genes : allele[g] \in InitialAlleles(flexibility[g], max_bonds[g])
    /\ indpb \in [Genes -> Probabilities]
    /\ _anchor = [g \in Genes |-> NoAnchor]
    /\ search = [g \in Genes |-> NoSearch]
    /\ rotatable_atom_types = [g \in Genes |-> DefaultAtomTypes]

InitEngine ==
    /\ mol \in DOMAIN Molecules
    /\ enum \in Molecules[mol].enums
    /\ BONDS_ROTS = [b \in Molecules[mol].bonds |-> NoRot]
    /\ rots = <<>>
    /\ extUsed \in {{}, Molecules[mol].foreign}
    /\ calls = [b \in Molecules[mol].bonds |-> 0]
    /\ last = Idle("init", "A", <<>>)
    /\ phase = [g \in Genes |-> [state |-> "Unexpressed", slots |-> <<>>,
                                 disturbed |-> FALSE]]
    /\ pc = [gene |-> "A", at |-> "idle", done |-> {}]

\* Genes as some generations of mate and mutate have left them, all built
\* from the one configuration with flexibility 400.
InitEvolved ==
    /\ flexibility = [g \in Genes |-> StoredFlexibility(400)]
    /\ max_bonds \in [Genes -> 0..MaxBonds]
    /\ allele \in [Genes -> UNION {[1..n -> ExpressSamples] : n \in 0..MaxBonds}]
    /\ \A g \in Genes : Len(allele[g]) = max_bonds[g]
    /\ indpb = [g \in Genes |-> 100]
    /\ _anchor = [g \in Genes |-> NoAnchor]
    /\ search = [g \in Genes |-> NoSearch]
    /\ rotatable_atom_types = [g \in Genes |-> DefaultAtomTypes]

Init == InitEvolved /\ InitEngine

Next ==
    \/ \E g \in Genes : Express(g) /\ UNCHANGED pc
    \/ \E g \in Genes : Unexpress(g) /\ UNCHANGED pc
    \/ \E b \in Molecule.bonds : ExternalRelease(b) /\ UNCHANGED pc

Spec == Init /\ [][Next]_vars

\* The same genes and operations with fewer alleles to tell apart: every
\* allele value of gene A is 180 and every one of gene B is 170, the lengths
\* being free.
InitApartGenes ==
    /\ InitEvolved
    /\ \A k \in DOMAIN allele["A"] : allele["A"][k] = 180
    /\ \A k \in DOMAIN allele["B"] : allele["B"][k] = 170

InitApart == InitApartGenes /\ InitEngine

SpecApart == InitApart /\ [][Next]_vars

\* The genetic operators on freshly constructed genes of any configuration.
\* They read and write the alleles alone, so the molecule is held fixed.
InitGA == InitGenes /\ InitEngine /\ mol = 1 /\ enum[1] = {1, 2} /\ extUsed = {}

NextGA ==
    \/ \E g, h \in Genes : Mate(g, h) /\ UNCHANGED pc
    \/ \E g \in Genes, arg \in Probabilities : Mutate(g, arg) /\ UNCHANGED pc

SpecGA == InitGA /\ [][NextGA]_vars

\* Express and unexpress of genes that differ in their configured anchor,
\* Search sibling and rotatable_atom_types; gene A keeps the defaults, gene B
\* is configured with other atom types.
InitConfigured ==
    /\ flexibility = [g \in Genes |-> StoredFlexibility(400)]
    /\ max_bonds = [g \in Genes |-> MaxBonds]
    /\ allele = [g \in Genes |-> [k \in 1..MaxBonds |-> 170]]
    /\ indpb = [g \in Genes |-> 100]
    /\ _anchor \in [Genes -> AnchorSpecs]
    /\ search \in [Genes -> SearchAnchors]
    /\ rotatable_atom_types \in [Genes -> AtomTypeSets]
    /\ _anchor["A"] = NoAnchor
    /\ search["A"] = NoSearch
    /\ rotatable_atom_types["A"] = DefaultAtomTypes
    /\ rotatable_atom_types["B"] # DefaultAtomTypes

\* Molecules 2 and 5 add nothing here: dummies, a foreign bond and a short
\* chain are of no concern to the anchor or to the atom types.
InitCfg == InitConfigured /\ InitEngine /\ mol \notin {2, 5}

\* No bond of these molecules has another owner, so nothing is released.
NextCfg ==
    \/ \E g \in Genes : Express(g) /\ UNCHANGED pc
    \/ \E g \in Genes : Unexpress(g) /\ UNCHANGED pc

SpecCfg == InitCfg /\ [][NextCfg]_vars

\* The evaluation loop the gene is written for: one individual at a time,
\* express, evaluate, unexpress; an exception ends the run.
LoopExpress(g) ==
    /\ pc.at = "idle"
    /\ Express(g)
    /\ pc' = [pc EXCEPT !.gene = g,
                        !.at = IF last'.raised THEN "aborted" ELSE "expressed"]

Evaluate ==
    /\ pc.at = "expressed"
    /\ pc' = [pc EXCEPT !.at = "evaluated"]
    /\ UNCHANGED <<config, allele, BONDS_ROTS, rots, extUsed, calls, last, phase>>

LoopUnexpress ==
    /\ pc.at = "evaluated"
    /\ Unexpress(pc.gene)
    /\ pc' = [pc EXCEPT !.at = IF last'.raised THEN "aborted" ELSE "idle",
                        !.done = IF last'.raised THEN @ ELSE @ \cup {pc.gene}]

LoopRelease(b) ==
    /\ pc.at = "idle"
    /\ ExternalRelease(b)
    /\ UNCHANGED pc

NextLoop ==
    \/ \E g \in Genes : LoopExpress(g)
    \/ Evaluate
    \/ LoopUnexpress
    \/ \E b \in Molecule.bonds : LoopRelease(b)

SpecLoop == Init /\ [][NextLoop]_vars

\* --------------------------------------------------------------- properties

Cached(b) == BONDS_ROTS[b] # NoRot

HandlesOf(b) == {i \in DOMAIN rots : rots[i].bond = b}

YieldedBond(k) == rots[last.yielded[k]].bond

IsPass == last.op \in {"express", "unexpress"}

\* No bond has two BondRot objects, and a cache entry is the bond's own.
OneHandlePerBond ==
    /\ \A b \in DOMAIN BONDS_ROTS : Cardinality(HandlesOf(b)) <= 1
    /\ \A b \in DOMAIN BONDS_ROTS : Cached(b) => BONDS_ROTS[b] \in HandlesOf(b)

\* What a pass yields for a bond is the handle the cache holds for it, and a
\* pass that ran to its end has yielded the handle of every cached bond.
PassYieldsCached ==
    IsPass =>
        /\ \A k \in DOMAIN last.yielded : BONDS_ROTS[YieldedBond(k)] = last.yielded[k]
        /\ (last.op = "unexpress" /\ ~last.raised) =>
               \A b \in DOMAIN BONDS_ROTS :
                   Cached(b) => \E k \in DOMAIN last.yielded : last.yielded[k] = BONDS_ROTS[b]

\* A cache entry is never removed and never replaced.
CacheEntriesStay ==
    \A b \in DOMAIN BONDS_ROTS : Cached(b) => BONDS_ROTS'[b] = BONDS_ROTS[b]

\* C1: over any passes of any genes on the one molecule, BONDS_ROTS holds at
\* most one handle per bond; once a bond is cached every later pass yields
\* that same handle for it, and no entry is removed or replaced.
C1_OneHandleForever ==
    /\ [](OneHandlePerBond /\ PassYieldsCached)
    /\ [][CacheEntriesStay]_vars

\* C1 witness: gene B's pass has yielded a handle that gene A rotated before
\* and that was created by the one BondRot call made for its bond.
C1_Witness ==
    /\ last.op = "unexpress" /\ last.gene = "B" /\ ~last.raised
    /\ \E k \in DOMAIN last.yielded :
          /\ \E j \in DOMAIN phase["A"].slots : phase["A"].slots[j] = last.yielded[k]
          /\ calls[YieldedBond(k)] = 1

\* C2 as stated: chimera.BondRot(b) is invoked at most once per bond, the
\* bonds the engine rejects included.
C2_AtMostOneCallPerBond == \A b \in DOMAIN calls : calls[b] <= 1

\* A cached bond is never handed to chimera.BondRot again.
NoCallWhenCached ==
    \A b \in DOMAIN BONDS_ROTS : Cached(b) => calls'[b] = calls[b]

\* C2 amended: chimera.BondRot(b) is never invoked for a bond that has a
\* cached handle, and every cached handle comes from such an invocation; a
\* bond that is not cached, as one the engine rejects, is handed to
\* chimera.BondRot again by later passes.
C2_OneCreationPerBond ==
    /\ [](\A b \in DOMAIN BONDS_ROTS : Cached(b) => calls[b] >= 1)
    /\ [][NoCallWhenCached]_vars

\* C2 witness: a rejected bond has been tried more than once and is not
\* cached, while a cached bond has had its single call.
C2_Witness ==
    /\ \E b \in DOMAIN calls : calls[b] >= 2 /\ ~Cached(b)
    /\ \E b \in DOMAIN calls : calls[b] = 1 /\ Cached(b)
    /\ last.op = "unexpress"

Min(a, b) == IF a < b THEN a ELSE b

\* The angle gene g wants on bond b for its k-th allele.
TargetOf(g, k, b) == ExpressTarget(allele[g][k], b)

\* The k-th bond a discovery yields now, for every k up to the shorter of
\* gene g's allele and the discovery, stands at gene g's target.
DiscoveredAtTargets(g) ==
    LET st == rotatable_bonds(g, Unbounded, NoBond, FALSE)
    IN  \A k \in 1..Min(Len(allele[g]), Len(st.yielded)) :
            /\ st.yielded[k] \in DOMAIN rots
            /\ rots[st.yielded[k]].angle = TargetOf(g, k, rots[st.yielded[k]].bond)

\* C3: when every individual's cycle runs express, evaluate, unexpress with
\* nothing of another individual in between, at every evaluation the k-th
\* discovered bond stands at the evaluated gene's target for allele k, and
\* after every unexpress every discovered bond stands at 0.
C3_SerialCycles ==
    /\ pc.at = "evaluated" => DiscoveredAtTargets(pc.gene)
    /\ (pc.at = "idle" /\ last.op = "unexpress") =>
           \A i \in DOMAIN rots : rots[i].angle = 0

\* C3 witness: gene B is evaluated with two bonds turned, one of them away
\* from 0, after gene A's cycle on the same handles, A wanting other angles.
C3_Witness ==
    /\ pc.at = "evaluated" /\ pc.gene = "B"
    /\ Len(phase["B"].slots) = 2
    /\ \E k \in 1..2 : rots[phase["B"].slots[k]].angle = 170
    /\ Len(allele["A"]) = 2
    /\ \A k \in 1..2 : allele["A"][k] # allele["B"][k]
    /\ "A" \in pc.done

\* Some bond gene g turned in its last express is not at g's target.
Mismatch(g) ==
    \E k \in DOMAIN phase[g].slots :
        rots[phase[g].slots[k]].angle # TargetOf(g, k, rots[phase[g].slots[k]].bond)

\* C4: express/unexpress of two genes on one molecule are not safe to
\* interleave. A gene that is Expressed finds a shared bond away from its
\* target only when another gene's express or unexpress ran since its own
\* express (the theorem), and such an interleaving exists (the witness).
C4_MismatchOnlyByInterleaving ==
    \A g \in Genes :
        (phase[g].state = "Expressed" /\ Mismatch(g)) => phase[g].disturbed

\* C4 witness: B is Expressed and a bond it turned stands elsewhere, after an
\* express or unexpress of A.
C4_Witness ==
    /\ phase["B"].state = "Expressed"
    /\ Mismatch("B")
    /\ last.gene = "A" /\ IsPass

\* C5: len(allele) == max_bonds for every gene, at construction and after any
\* mate and mutate calls, for the caller and the partner, also when the two
\* have different max_bonds.
C5_LengthIsMaxBonds == \A g \in Genes : Len(allele[g]) = max_bonds[g]

\* C5 witness: a mate between genes of different lengths has changed both.
C5_Witness ==
    /\ last.op = "mate"
    /\ max_bonds["A"] # max_bonds["B"]
    /\ \A g \in Genes : \E i \in DOMAIN allele[g] : allele[g][i] < 0

LargestFlexibility ==
    CHOOSE f \in {flexibility[g] : g \in Genes} : \A g \in Genes : flexibility[g] <= f

C7_ExpressUnexpressGivesZero ==
    (last.op = "unexpress" /\ last.follows /\ ~last.raised) =>
        \A k \in DOMAIN last.yielded : rots[last.yielded[k]].angle = 0

\* C7 witness: the unexpress found a planar bond at its snapped 180 and
\* another bond at a raw allele value.
C7_Witness ==
    /\ last.op = "unexpress" /\ last.follows /\ ~last.raised
    /\ \E k \in DOMAIN last.yielded : Planar(YieldedBond(k)) /\ last.before[k] = 180
    /\ \E k \in DOMAIN last.yielded : ~Planar(YieldedBond(k)) /\ last.before[k] = 170

\* C8: after express() every rotated bond whose two atoms are planar (C2, N2)
\* has a recorded angle of exactly 0 or exactly 180.
C8_PlanarIsZeroOr180 ==
    last.op = "express" =>
        \A k \in DOMAIN last.yielded :
            Planar(YieldedBond(k)) => rots[last.yielded[k]].angle \in {0, 180}

\* C8 witness: a planar bond that stood at 180 was expressed with allele 170.
C8_Witness ==
    /\ last.op = "express"
    /\ \E k \in DOMAIN last.yielded :
          /\ Planar(YieldedBond(k))
          /\ last.before[k] = 180
          /\ allele[last.gene][k] = 170

Distance(a, b) == IF a < b THEN b - a ELSE a - b

NearestOf0And180(alpha) == IF Distance(alpha, 0) <= Distance(alpha, 180) THEN 0 ELSE 180

\* C9: on a bond whose two atoms are planar, express() snaps the target to
\* whichever of 0 and 180 is nearest to the allele value.
C9_SnapsToNearest ==
    last.op = "express" =>
        \A k \in DOMAIN last.yielded :
            Planar(YieldedBond(k)) =>
                rots[last.yielded[k]].angle = NearestOf0And180(allele[last.gene][k])

Terminal(a) == NumBonds(a) <= 1

Dummy(a) == Molecule.atoms[a].name = "DUM"

PassStart ==
    [cache |-> BONDS_ROTS, rots |-> rots, calls |-> calls,
     yielded |-> <<>>, raised |-> FALSE]

\* The bonds a full pass of gene g yields, in the order it yields them, when
\* the interpreter iterates the set of bonds in order e.
YieldOrder(g, e) ==
    LET st == Generate(g, Sorted(SelectSeq(e, TouchesNonMetal)), Unbounded,
                       PassStart, NoBond, FALSE)
    IN  [k \in DOMAIN st.yielded |-> st.rots[st.yielded[k]].bond]

\* C11: for a fixed molecule and a fixed engine and cache state, the sequence
\* of bonds rotatable_bonds yields is the same for every iteration order of
\* the unordered bond set, also when bonds tie on the smallest serial number.
C11_SameOrderForEveryEnumeration ==
    \A g \in Genes : \A e \in Molecule.enums : YieldOrder(g, e) = YieldOrder(g, enum)

HasMetal(b) == \E a \in b : Molecule.atoms[a].isMetal

\* C12: no bond with a metal atom at either end, a bond between a metal and a
\* non-metal included, is ever handed to chimera.BondRot, cached or yielded.
C12_NoMetalBondDiscovered ==
    \A b \in Molecule.bonds :
        HasMetal(b) =>
            /\ calls[b] = 0
            /\ ~Cached(b)
            /\ HandlesOf(b) = {}
            /\ \A k \in DOMAIN last.yielded : YieldedBond(k) # b

\* Some atom of bond b has a type of gene g's rotatable_atom_types and is not
\* in the exclusion set.
HasConfiguredType(g, b) ==
    \E a \in b : /\ a \notin nonrotatable
                 /\ Molecule.atoms[a].idatmType \in rotatable_atom_types[g]

\* C13: a bond with no dummy and no terminal atom is accepted by the
\* classification of a gene's pass (and so handed to chimera.BondRot) only if
\* one of its atoms has a type of that gene's configured rotatable_atom_types.
C13_AcceptsOnlyConfiguredTypes ==
    [][\A b \in Molecule.bonds :
          (/\ calls'[b] # calls[b]
           /\ \A a \in b : ~Dummy(a) /\ ~Terminal(a))
          => HasConfiguredType(last'.gene, b)]_vars

\* The atom the explicit anchor names, NoAtom when there is no explicit
\* anchor, when its molecule is not loaded or when no atom has its serial.
ExplicitOrNothing(g) ==
    IF _anchor[g] = NoAnchor THEN NoAtom
    ELSE IF _anchor[g][1] \notin MoleculeNames THEN NoAtom
    ELSE IF AtomsWithSerial(_anchor[g][2]) = {} THEN NoAtom
    ELSE First(AtomsWithSerial(_anchor[g][2]))

\* The anchor by the three-step precedence in which every failing step falls
\* through: explicit anchor, Search sibling, donor; an error only for want
\* of a donor.
PrecedenceAnchor(g) ==
    IF ExplicitOrNothing(g) # NoAtom THEN ExplicitOrNothing(g) ELSE SearchAnchor(g)

\* C14: self.anchor is the explicit anchor when its atom is found; else, the
\* explicit anchor being absent or unresolvable (serial or molecule not
\* found), the Search sibling's anchor when it resolves; else the donor; and
\* it raises only when there is no donor. A pass that created a handle raised
\* for its anchor only in that last case.
C14_EveryStepFallsThrough ==
    /\ \A g \in Genes : Anchor(g) = PrecedenceAnchor(g)
    /\ (IsPass /\ last.raised /\ Molecule.fragile = {})
           => PrecedenceAnchor(last.gene) = Raises

\* The handles a full pass of gene g would yield from here, the engine not
\* failing.
FullPass(g) == rotatable_bonds(g, Unbounded, NoBond, FALSE).yielded

\* C15: an express() that returns has rotated exactly the first
\* min(len(allele), n) bonds of the discovery order, n the number of bonds
\* rotatable_bonds would yield: the k-th of them stands at the target of
\* allele k, every other handle keeps its recorded angle (all of them when
\* max_bonds = 0), and the allele is not written.
C15_RotatesTheFirstPairs ==
    [][\A g \in {last'.gene} :
          (Express(g) /\ ~last'.raised) =>
              LET full == FullPass(g)
                  m    == Min(Len(allele[g]), Len(full))
              IN  /\ last'.yielded = SubSeq(full, 1, m)
                  /\ \A k \in 1..m :
                        rots'[full[k]].angle = TargetOf(g, k, rots'[full[k]].bond)
                  /\ \A i \in DOMAIN rots :
                        i \notin {full[k] : k \in 1..m} => rots'[i] = rots[i]
                  /\ DOMAIN rots' = DOMAIN rots \cup {full[k] : k \in 1..m}
                  /\ allele' = allele]_vars

\* C15 witness: gene B, of one allele, has expressed on a molecule with more
\* rotatable bonds; the second bond, cached and turned by gene A before,
\* kept its angle.
C15_Witness ==
    /\ last.op = "express" /\ last.gene = "B" /\ ~last.raised
    /\ Len(allele["B"]) = 1 /\ Len(last.yielded) = 1
    /\ Len(FullPass("B")) >= 2
    /\ FullPass("B")[2] \in DOMAIN rots
    /\ rots[FullPass("B")[2]].angle = 180
    /\ last.before[1] # rots[last.yielded[1]].angle

\* A bond discovery collects and classification accepts.
Candidate(b) == TouchesNonMetal(b) /\ Conditions(b)

\* A bond the engine turns down as things stand: it lies on a ring, or a
\* BondRot of it is held by another owner or by a handle that is in no cache.
Rejected(b) ==
    \/ b \in Molecule.cycle
    \/ b \in extUsed
    \/ HandlesOf(b) # {} /\ ~Cached(b)

\* C16: a bond the engine rejects as cyclic or already used is never in
\* BONDS_ROTS; a full pass that returns has handed every uncached candidate
\* bond to chimera.BondRot again, has skipped the rejected ones, leaving them
\* uncached, and has gone on to cache and yield every bond the engine accepts,
\* a bond rejected by earlier passes included.
C16_RejectedIsSkippedAndRetried ==
    /\ [](\A b \in Molecule.bonds : (b \in Molecule.cycle \cup extUsed) => ~Cached(b))
    /\ [][\A g \in {last'.gene} :
             (Unexpress(g) /\ ~last'.raised) =>
                 \A b \in Molecule.bonds :
                     (Candidate(b) /\ ~Cached(b)) =>
                         /\ calls'[b] = Bump(calls[b])
                         /\ Rejected(b) =>
                               /\ BONDS_ROTS'[b] = NoRot
                               /\ \A k \in DOMAIN last'.yielded :
                                     rots'[last'.yielded[k]].bond # b
                         /\ ~Rejected(b) =>
                               /\ BONDS_ROTS'[b] # NoRot
                               /\ \E k \in DOMAIN last'.yielded :
                                     last'.yielded[k] = BONDS_ROTS'[b]]_vars

\* C16 witness: the bond another owner held was rejected by an earlier pass,
\* which went on and cached a later bond; the owner released it and the last
\* pass has cached and yielded it.
C16_Witness ==
    /\ mol = 2 /\ IsPass /\ ~last.raised
    /\ Cached({1, 3}) /\ Cached({3, 4})
    /\ BONDS_ROTS[{3, 4}] < BONDS_ROTS[{1, 3}]
    /\ calls[{1, 3}] = 2
    /\ \E k \in DOMAIN last.yielded : last.yielded[k] = BONDS_ROTS[{1, 3}]

\* Every bond a pass would hand to chimera.BondRot from here is one the
\* engine rejects: what it would accept is cached already.
AllCached ==
    \A b \in Molecule.bonds :
        (Candidate(b) /\ ~Cached(b)) => (Rejected(b) /\ b \notin Molecule.fragile)

\* C17: no pass of any gene changes the rotanchor (or the bond) of a handle
\* that exists, whatever that gene's own anchor is; and a pass that finds
\* every bond cached resolves no anchor: it creates nothing and does not
\* raise, also for a gene whose anchor would raise.
C17_RotanchorIsFixed ==
    /\ [][\A i \in DOMAIN rots :
             /\ i \in DOMAIN rots'
             /\ rots'[i].rotanchor = rots[i].rotanchor
             /\ rots'[i].bond = rots[i].bond]_vars
    /\ [][\A g \in {last'.gene} :
             ((Express(g) \/ Unexpress(g)) /\ AllCached) =>
                 ~last'.raised /\ DOMAIN rots' = DOMAIN rots]_vars

\* C17 witness: gene B, anchored at atom 4, has been yielded the handle of
\* bond 1-2 that gene A created with the donor for anchor: its rotanchor is
\* atom 1, while the end nearest to B's anchor is atom 2.
C17_Witness ==
    /\ mol = 1 /\ IsPass /\ last.gene = "B" /\ ~last.raised
    /\ Anchor("B") = 4
    /\ \E k \in DOMAIN last.yielded :
          /\ YieldedBond(k) = {1, 2}
          /\ rots[last.yielded[k]].rotanchor = 1
          /\ FindNearest(Anchor("B"), {1, 2}) = 2

\* The place of bond b in the order discovery walks the bonds in.
Position(b) == CHOOSE i \in DOMAIN SortedBonds : SortedBonds[i] = b

Walked == {SortedBonds[i] : i \in DOMAIN SortedBonds}

\* C18: when the engine fails on a bond for a reason that is neither a cycle
\* nor an already-used rejection, the express()/unexpress() that drove the
\* pass raises; the failing bond is not cached; no later bond is handed to the
\* engine, cached, yielded or turned; and every earlier bond the engine
\* accepts is cached and yielded and stands where the pass turned it (at its
\* target in express, at 0 in unexpress), no cache entry being undone.
C18_FatalErrorPropagates ==
    [][\A g \in {last'.gene} :
          ((Express(g) \/ Unexpress(g)) /\ last'.raised /\ Anchor(g) # Raises) =>
              \E f \in Molecule.fragile :
                  /\ ~Cached(f) /\ BONDS_ROTS'[f] = NoRot
                  /\ calls'[f] = Bump(calls[f])
                  /\ \A b \in Walked :
                        Position(b) > Position(f) =>
                            /\ calls'[b] = calls[b]
                            /\ BONDS_ROTS'[b] = BONDS_ROTS[b]
                            /\ \A i \in HandlesOf(b) :
                                  rots'[i] = rots[i] /\ \A k \in DOMAIN last'.yielded :
                                                           last'.yielded[k] # i
                  /\ \A b \in Walked :
                        (Position(b) < Position(f) /\ Candidate(b)
                            /\ (Cached(b) \/ ~Rejected(b))) =>
                            /\ BONDS_ROTS'[b] # NoRot
                            /\ \E k \in DOMAIN last'.yielded :
                                  /\ last'.yielded[k] = BONDS_ROTS'[b]
                                  /\ rots'[BONDS_ROTS'[b]].angle =
                                        IF last'.op = "express" THEN TargetOf(g, k, b) ELSE 0
                  /\ CacheEntriesStay]_vars

\* C18 witness: an express has raised on the fragile bond 4-5 after it
\* created, cached and turned the handle of bond 3-4; bond 4-5 is not cached
\* and bond 5-6 has never been handed to the engine.
C18_Witness ==
    /\ mol = 3 /\ last.op = "express" /\ last.raised
    /\ Cached({3, 4}) /\ last.yielded = <<BONDS_ROTS[{3, 4}]>>
    /\ last.before = <<0>>
    /\ rots[BONDS_ROTS[{3, 4}]].angle = 170
    /\ ~Cached({4, 5}) /\ calls[{4, 5}] = 1
    /\ calls[{5, 6}] = 0 /\ ~Cached({5, 6})

\* C19: mutate(indpb) mutates with the probability the caller passes:
\* mutate(0) leaves every allele value as it is, whatever the gene's own
\* indpb attribute is.
C19_MutateZeroChangesNothing ==
    [][\A g \in Genes : Mutate(g, 0) => allele' = allele]_vars

\* No bond another owner has let go of is still waiting to be discovered:
\* two passes from here meet the same engine.
NothingNewlyReleased == \A b \in Molecule.foreign \ extUsed : Cached(b)

\* C20: express() is absolute. Whatever angles the shared handles held
\* before, after gene G's express() the k-th bond it was yielded stands at G's
\* target for allele k; and an express() of G straight after an express() of
\* G is yielded the same handles, leaves every angle where it was and does
\* not write the allele.
C20_ExpressIsAbsolute ==
    /\ [](last.op = "express" =>
             \A k \in DOMAIN last.yielded :
                 rots[last.yielded[k]].angle = TargetOf(last.gene, k, YieldedBond(k)))
    /\ [][\A g \in {last'.gene} :
             (/\ Express(g)
              /\ last.op = "express" /\ last.gene = g
              /\ ~last.raised /\ ~last'.raised
              /\ NothingNewlyReleased) =>
                 /\ last'.yielded = last.yielded
                 /\ rots' = rots
                 /\ allele' = allele]_vars

\* C20 witness: gene B has expressed on a bond that gene A had left at 180
\* without an unexpress; it stands at B's 170 now.
C20_Witness ==
    /\ last.op = "express" /\ last.gene = "B" /\ ~last.raised
    /\ \E k \in DOMAIN last.yielded :
          /\ ~Planar(YieldedBond(k))
          /\ last.before[k] = 180
          /\ allele["B"][k] = 170
          /\ rots[last.yielded[k]].angle = 170

====
